---- MODULE Spec2Model ----
(***************************************************************************)
(* RemoteBWE: the remote (REMB driven) bandwidth estimator of the SFU.     *)
(* pkg/sfu/bwe/remotebwe/remote_bwe.go                                     *)
(*                                                                         *)
(* The controller record (type RemoteBWE) is modelled field by field.      *)
(* The channel observer (channel_observer.go of the same package) is not   *)
(* part of the sources at hand; it is modelled from its contract.          *)
(* Bandwidths are in bps, time is in seconds.                              *)
(***************************************************************************)
EXTENDS Integers, Sequences, FiniteSets, TLC

VARIABLES
    lastReceivedEstimate,        \* RemoteBWE.lastReceivedEstimate
    lastExpectedBandwidthUsage,  \* RemoteBWE.lastExpectedBandwidthUsage
    committedChannelCapacity,    \* RemoteBWE.committedChannelCapacity
    isInProbe,                   \* RemoteBWE.isInProbe
    channelObserver,             \* RemoteBWE.channelObserver (the live instance)
    congestionState,             \* RemoteBWE.congestionState
    congestionStateSwitchedAt,   \* RemoteBWE.congestionStateSwitchedAt
    bweListener,                 \* RemoteBWE.bweListener
    now,                         \* the monotonic clock read by mono.Now()
    lastCall,                    \* the last completed public call: arguments, results, listener invocations
    listenerView,                \* what the listener has been told by the calls made one after the other
    lock,                        \* RemoteBWE.lock (sync.RWMutex): the writer and the readers holding it
    pc,                          \* where each thread is in its call
    frame,                       \* each thread's locals of HandleREMB
    pending                      \* the notifications decided under the lock and not yet made, oldest first

\* the fields the lock guards
fields == <<lastReceivedEstimate, lastExpectedBandwidthUsage, committedChannelCapacity,
            isInProbe, channelObserver, congestionState, congestionStateSwitchedAt>>

\* what the threads of the concurrent specification add
threads == <<lock, pc, frame, pending>>

\* what the sequential specification records of the calls
history == <<lastCall, listenerView>>

vars == <<fields, bweListener, now, history, threads>>

-----------------------------------------------------------------------------
(* Bounds of the model *)

\* the clock runs from 0 to MaxTime
MaxTime == 3
\* packets a channel observer is fed before the feed stops reporting packets
MaxPackets == 10
\* observer instances are told apart by a tag in 0..NumObserverTags
NumObserverTags == 1

\* receiver estimates fed to HandleREMB
Estimates == {50, 100, 120}
\* expected bandwidth usages fed to HandleREMB
Usages == {100}
\* (sentPackets, repeatedNacks) pairs fed to HandleREMB
NackReports == {<<0, 0>>, <<10, 1>>, <<10, 5>>}
\* ProbeClusterInfo.Goal.ExpectedUsageBps of the probes started
ProbeGoals == {200}
\* the HandleREMB calls of the concurrent threads:
\* (receivedEstimate, expectedBandwidthUsage, sentPackets, repeatedNacks)
ThreadFeeds == {<<120, 100, 0, 0>>, <<50, 100, 0, 0>>, <<100, 100, 10, 1>>}

-----------------------------------------------------------------------------
(* Configuration: DefaultRemoteBWEConfig *)

\* NackRatioAttenuator: 0.4 = 2/5
NackRatioAttenuatorNum == 2
NackRatioAttenuatorDen == 5
\* ExpectedUsageThreshold: 0.95 = 19/20
ExpectedUsageThresholdNum == 19
ExpectedUsageThresholdDen == 20
\* CongestedMinDuration: 3 * time.Second
CongestedMinDuration == 3
\* committedChannelCapacity after Reset
DefaultCommittedChannelCapacity == 100000000

\* int64(x) of a float64 quotient a/b, b > 0: truncation toward zero
TruncDiv(a, b) == IF a >= 0 THEN a \div b ELSE -((-a) \div b)

-----------------------------------------------------------------------------
(* Channel observer, from its contract *)

\* ChannelObserverConfig: the estimate samples the window keeps, and the minimum number
\* of samples in the window for a trend (the same for probe and non-probe observers)
WindowSamples == 2
RequiredSamples == 2
\* retransmit ratio at which the loss path triggers: 1/10
NackRatioThresholdNum == 1
NackRatioThresholdDen == 10

NextTag(tag) == (tag + 1) % (NumObserverTags + 1)

MakeChannelObserver(name, tag) ==
    [tag |-> tag, name |-> name, estimates |-> <<>>, sentPackets |-> 0, repeatedNacks |-> 0]

SeedEstimate(o, value) ==
    IF o.estimates = <<>> THEN [o EXCEPT !.estimates = <<value>>] ELSE o

AddEstimate(o, value) ==
    LET all == Append(o.estimates, value)
    IN  [o EXCEPT !.estimates =
            IF Len(all) > WindowSamples THEN SubSeq(all, Len(all) - WindowSamples + 1, Len(all)) ELSE all]

AddNack(o, sentPackets, repeatedNacks) ==
    [o EXCEPT !.sentPackets = @ + sentPackets, !.repeatedNacks = @ + repeatedNacks]

\* the ratio repeatedNacks / sentPackets as a fraction, 0 when no packets were observed
GetNackRatio(o) ==
    IF o.sentPackets = 0 THEN [num |-> 0, den |-> 1]
    ELSE [num |-> (IF o.repeatedNacks > o.sentPackets THEN o.sentPackets ELSE o.repeatedNacks),
          den |-> o.sentPackets]

HasEnoughEstimateSamples(o) == Len(o.estimates) >= RequiredSamples

RECURSIVE SeqMax(_)
SeqMax(s) ==
    IF Len(s) = 0 THEN 0
    ELSE IF Len(s) = 1 THEN s[1]
    ELSE LET m == SeqMax(Tail(s)) IN IF s[1] > m THEN s[1] ELSE m

GetHighestEstimate(o) == SeqMax(o.estimates)

NackTriggered(o) ==
    LET r == GetNackRatio(o)
    IN  o.sentPackets > 0 /\ r.num * NackRatioThresholdDen >= r.den * NackRatioThresholdNum

GetTrend(o) ==
    LET n == Len(o.estimates)
    IN  IF NackTriggered(o)
          THEN [trend |-> "Congesting", reason |-> "Loss"]
        ELSE IF HasEnoughEstimateSamples(o) /\ o.estimates[n] < o.estimates[1]
          THEN [trend |-> "Congesting", reason |-> "BandwidthEstimate"]
        ELSE IF HasEnoughEstimateSamples(o) /\ o.estimates[n] > o.estimates[1]
          THEN [trend |-> "Clearing", reason |-> "None"]
        ELSE [trend |-> "Neutral", reason |-> "None"]

-----------------------------------------------------------------------------
(* The controller *)

\* the RemoteBWE record under the lock
Self ==
    [lastReceivedEstimate |-> lastReceivedEstimate,
     lastExpectedBandwidthUsage |-> lastExpectedBandwidthUsage,
     committedChannelCapacity |-> committedChannelCapacity,
     isInProbe |-> isInProbe,
     channelObserver |-> channelObserver,
     congestionState |-> congestionState,
     congestionStateSwitchedAt |-> congestionStateSwitchedAt]

Install(r) ==
    /\ lastReceivedEstimate' = r.lastReceivedEstimate
    /\ lastExpectedBandwidthUsage' = r.lastExpectedBandwidthUsage
    /\ committedChannelCapacity' = r.committedChannelCapacity
    /\ isInProbe' = r.isInProbe
    /\ channelObserver' = r.channelObserver
    /\ congestionState' = r.congestionState
    /\ congestionStateSwitchedAt' = r.congestionStateSwitchedAt

\* r.newChannelObserver()
newChannelObserver(r) ==
    LET tag == NextTag(r.channelObserver.tag)
    IN  IF r.isInProbe
          THEN [r EXCEPT !.channelObserver =
                    SeedEstimate(MakeChannelObserver("probe", tag), r.committedChannelCapacity)]
          ELSE [r EXCEPT !.channelObserver = MakeChannelObserver("non-probe", tag)]

\* r.updateCongestionState(state, reason)
updateCongestionState(r, state) ==
    [r EXCEPT !.congestionState = state, !.congestionStateSwitchedAt = now]

\* estimateToCommit of estimateAvailableChannelCapacity, before the clamp
Candidate(r, reason) ==
    IF reason = "Loss"
      THEN LET nr == GetNackRatio(r.channelObserver)
           IN  TruncDiv(r.lastExpectedBandwidthUsage
                          * (NackRatioAttenuatorDen * nr.den - NackRatioAttenuatorNum * nr.num),
                        NackRatioAttenuatorDen * nr.den)
      ELSE r.lastReceivedEstimate

\* a variant of EstimateToCommit that leaves out the clamp
EstimateToCommitUnclamped(r, reason) == Candidate(r, reason)

\* estimateToCommit after the clamp to lastReceivedEstimate
EstimateToCommit(r, reason) ==
    LET c == Candidate(r, reason)
    IN  IF c > r.lastReceivedEstimate THEN r.lastReceivedEstimate ELSE c

\* a variant of CommitThreshold that leaves out ExpectedUsageThreshold
CommitThresholdOfFullUsage(r) == r.lastExpectedBandwidthUsage

\* commitThreshold of estimateAvailableChannelCapacity
CommitThreshold(r) ==
    TruncDiv(ExpectedUsageThresholdNum * r.lastExpectedBandwidthUsage, ExpectedUsageThresholdDen)

\* r.estimateAvailableChannelCapacity(reason): the result and the record after it
estimateAvailableChannelCapacity(r, reason) ==
    LET estimateToCommit == EstimateToCommit(r, reason)
    IN  IF estimateToCommit > CommitThreshold(r)
          THEN [ok |-> FALSE, r |-> r]
          ELSE [ok |-> TRUE,
                r |-> newChannelObserver([r EXCEPT !.committedChannelCapacity = estimateToCommit])]

\* a variant of HangoverElapsed that ends the hangover a second early
HangoverElapsedEarly(r) == now - r.congestionStateSwitchedAt >= CongestedMinDuration - 1

\* a variant of HangoverElapsed with > in place of >=
HangoverElapsedLate(r) == now - r.congestionStateSwitchedAt > CongestedMinDuration

\* time.Since(r.congestionStateSwitchedAt) >= r.params.Config.CongestedMinDuration
HangoverElapsed(r) == now - r.congestionStateSwitchedAt >= CongestedMinDuration

\* variants of Transition: with commitInProbe the None state attempts the commit before it
\* looks at isInProbe; with hangoverFromNone a trend that is not congesting sends the None
\* state to CongestedHangover as it does the Congested state
TransitionVariant(r, commitInProbe, hangoverFromNone) ==
    LET t == GetTrend(r.channelObserver)
        e == estimateAvailableChannelCapacity(r, t.reason)
        stay == [newState |-> r.congestionState, update |-> FALSE, r |-> r]
    IN  IF t.trend = "Congesting"
          THEN IF r.congestionState = "None" /\ r.isInProbe /\ ~commitInProbe
                 THEN [stay EXCEPT !.newState = "Congested"]
               ELSE IF e.ok
                 THEN [newState |-> "Congested", update |-> r.congestionState = "Congested", r |-> e.r]
               ELSE IF r.congestionState = "None" /\ r.isInProbe
                 THEN [stay EXCEPT !.newState = "Congested"]
               ELSE stay
          ELSE CASE r.congestionState = "None" ->
                      IF hangoverFromNone THEN [stay EXCEPT !.newState = "CongestedHangover"] ELSE stay
                 [] r.congestionState = "Congested" -> [stay EXCEPT !.newState = "CongestedHangover"]
                 [] r.congestionState = "CongestedHangover" ->
                      IF HangoverElapsed(r) THEN [stay EXCEPT !.newState = "None"] ELSE stay

\* a variant of Transition with `r.estimateAvailableChannelCapacity(reason) || r.isInProbe`
TransitionCommitInProbe(r) == TransitionVariant(r, TRUE, FALSE)

\* a variant of Transition that enters CongestedHangover from None too
TransitionHangoverFromNone(r) == TransitionVariant(r, FALSE, TRUE)

\* the switch of congestionDetectionStateMachine: newState, update and the record after the commit attempt
Transition(r) ==
    LET t == GetTrend(r.channelObserver)
        stay == [newState |-> r.congestionState, update |-> FALSE, r |-> r]
    IN  CASE r.congestionState = "None" ->
                IF t.trend = "Congesting"
                  THEN IF r.isInProbe
                         THEN [stay EXCEPT !.newState = "Congested"]
                         ELSE LET e == estimateAvailableChannelCapacity(r, t.reason)
                              IN  IF e.ok THEN [newState |-> "Congested", update |-> FALSE, r |-> e.r]
                                  ELSE stay
                  ELSE stay
          [] r.congestionState = "Congested" ->
                IF t.trend = "Congesting"
                  THEN LET e == estimateAvailableChannelCapacity(r, t.reason)
                       IN  IF e.ok THEN [newState |-> "Congested", update |-> TRUE, r |-> e.r]
                           ELSE stay
                  ELSE [stay EXCEPT !.newState = "CongestedHangover"]
          [] r.congestionState = "CongestedHangover" ->
                IF t.trend = "Congesting"
                  THEN LET e == estimateAvailableChannelCapacity(r, t.reason)
                       IN  IF e.ok THEN [newState |-> "Congested", update |-> FALSE, r |-> e.r]
                           ELSE stay
                  ELSE IF HangoverElapsed(r)
                         THEN [stay EXCEPT !.newState = "None"]
                         ELSE stay

\* a variant of ShouldNotify that is always true
ShouldNotifyAlways(r, newState, update) == TRUE

\* a variant of ShouldNotify that leaves out update
ShouldNotifyOnNewState(r, newState, update) == newState # r.congestionState

\* if newState != r.congestionState || update
ShouldNotify(r, newState, update) == newState # r.congestionState \/ update

\* a variant of congestionDetectionStateMachine that returns the state and the capacity it
\* found, not the ones it leaves
congestionDetectionStateMachineStale(r) ==
    LET tr == Transition(r)
        shouldNotify == ShouldNotify(r, tr.newState, tr.update)
        r2 == IF shouldNotify THEN updateCongestionState(tr.r, tr.newState) ELSE tr.r
    IN  [shouldNotify |-> shouldNotify,
         state |-> r.congestionState,
         committedChannelCapacity |-> r.committedChannelCapacity,
         r |-> r2]

\* r.congestionDetectionStateMachine(): (shouldNotify, state, committedChannelCapacity) and the record after it
congestionDetectionStateMachine(r) ==
    LET tr == Transition(r)
        shouldNotify == ShouldNotify(r, tr.newState, tr.update)
        r2 == IF shouldNotify THEN updateCongestionState(tr.r, tr.newState) ELSE tr.r
    IN  [shouldNotify |-> shouldNotify,
         state |-> r2.congestionState,
         committedChannelCapacity |-> r2.committedChannelCapacity,
         r |-> r2]

\* a variant of Frozen that never freezes
FrozenNever(r) == FALSE

\* the freeze test of HandleREMB
Frozen(r) == r.isInProbe /\ r.congestionState # "None"

\* HandleREMB up to the state machine: the arguments recorded and, unless frozen, fed to the observer
Feed(r, receivedEstimate, expectedBandwidthUsage, sentPackets, repeatedNacks) ==
    LET r1 == [r EXCEPT !.lastReceivedEstimate = receivedEstimate,
                        !.lastExpectedBandwidthUsage = expectedBandwidthUsage]
    IN  IF Frozen(r1) THEN r1
        ELSE [r1 EXCEPT !.channelObserver =
                 AddNack(AddEstimate(@, r1.lastReceivedEstimate), sentPackets, repeatedNacks)]

\* the critical section of HandleREMB
HandleREMBLocked(r, receivedEstimate, expectedBandwidthUsage, sentPackets, repeatedNacks) ==
    LET r1 == Feed(r, receivedEstimate, expectedBandwidthUsage, sentPackets, repeatedNacks)
    IN  IF Frozen(r1)
          THEN [shouldNotify |-> FALSE, state |-> r1.congestionState,
                committedChannelCapacity |-> r1.committedChannelCapacity, r |-> r1]
          ELSE congestionDetectionStateMachine(r1)

\* the body of Reset
ResetLocked(r) ==
    LET r1 == newChannelObserver(
                 [r EXCEPT !.lastReceivedEstimate = 0,
                           !.lastExpectedBandwidthUsage = 0,
                           !.committedChannelCapacity = DefaultCommittedChannelCapacity,
                           !.isInProbe = FALSE])
    IN  [r1 EXCEPT !.congestionState = "None", !.congestionStateSwitchedAt = now]

\* a variant of ProbeClusterStartingLocked that keeps the live observer
ProbeClusterStartingKeepingObserver(r, goal) ==
    [r EXCEPT !.lastExpectedBandwidthUsage = goal, !.isInProbe = TRUE]

\* a variant of ProbeClusterStartingLocked that takes the goal as the committed capacity too
ProbeClusterStartingCommittingGoal(r, goal) ==
    newChannelObserver([r EXCEPT !.lastExpectedBandwidthUsage = goal,
                                 !.committedChannelCapacity = goal, !.isInProbe = TRUE])

\* the body of ProbeClusterStarting
ProbeClusterStartingLocked(r, goal) ==
    newChannelObserver([r EXCEPT !.lastExpectedBandwidthUsage = goal, !.isInProbe = TRUE])

\* a variant of RaisedCapacity that takes the highest estimate whatever the committed capacity
RaisedCapacityAlways(committed, highestEstimate) == highestEstimate

\* the capacity ProbeClusterDone leaves after a clearing probe
RaisedCapacity(committed, highestEstimate) ==
    IF highestEstimate > committed THEN highestEstimate ELSE committed

\* the probe signal of ProbeClusterDone, from the captured state and observer
ProbeSignal(probeCongestionState, pco) ==
    IF probeCongestionState # "None" THEN "Congesting"
    ELSE IF ~HasEnoughEstimateSamples(pco) \/ GetTrend(pco).trend = "Neutral" THEN "Inconclusive"
    ELSE "Clearing"

\* a variant of EndProbe that keeps the probe's observer
EndProbeKeepingObserver(r) == [r EXCEPT !.isInProbe = FALSE, !.congestionState = "None"]

\* ProbeClusterDone: the switch to a non-probe observer and the reset of the congestion state
EndProbe(r) ==
    newChannelObserver([r EXCEPT !.isInProbe = FALSE, !.congestionState = "None"])

\* a variant of ProbeClusterDoneLocked that raises the capacity whatever the signal
ProbeClusterDoneRaisingAlways(r) ==
    LET pco == r.channelObserver
        r1 == EndProbe(r)
        r2 == [r1 EXCEPT !.committedChannelCapacity = RaisedCapacity(@, GetHighestEstimate(pco))]
    IN  [signal |-> ProbeSignal(r.congestionState, pco), capacity |-> r2.committedChannelCapacity, r |-> r2]

\* the body of ProbeClusterDone: (signal, capacity) and the record after it
ProbeClusterDoneLocked(r) ==
    LET pco == r.channelObserver
        probeCongestionState == r.congestionState
        r1 == EndProbe(r)
        signal == ProbeSignal(probeCongestionState, pco)
        r2 == IF signal = "Clearing"
                THEN [r1 EXCEPT !.committedChannelCapacity =
                          RaisedCapacity(@, GetHighestEstimate(pco))]
                ELSE r1
    IN  [signal |-> signal, capacity |-> r2.committedChannelCapacity, r |-> r2]

-----------------------------------------------------------------------------
(* The public calls, one after the other *)

\* the threads calling into the controller
Threads == {"t1", "t2"}

\* the locals of HandleREMB: what the critical section returned, the listener read, and
\* the call the listener makes back into the controller
NoFrame == [shouldNotify |-> FALSE, state |-> "None", committedChannelCapacity |-> 0,
            bweListener |-> "nil", reentry |-> "none"]

NoArgs == [receivedEstimate |-> 0, expectedBandwidthUsage |-> 0, sentPackets |-> 0, repeatedNacks |-> 0]
NoNotification == [state |-> "None", committedChannelCapacity |-> 0]

\* prior, probe: congestionState and isInProbe when the call began; signal, capacity: what the call returned;
\* notified: how many times the call invoked OnCongestionStateChange; notification: with what
Call(op, args, signal, capacity, notified, notification) ==
    [op |-> op, args |-> args, prior |-> congestionState, probe |-> isInProbe, signal |-> signal, capacity |-> capacity,
     notified |-> notified, notification |-> notification]

\* the listener's view before any call: registered says that a listener was registered at
\* every HandleREMB, ProbeClusterStarting and ProbeClusterDone call so far and that Reset was
\* not called; state is the congestion state of the last OnCongestionStateChange made (None
\* before the first), followed while registered
NoView == [state |-> "None", registered |-> TRUE]

\* the view of a listener that was not registered at some call, or saw a Reset
Unregistered == [state |-> "None", registered |-> FALSE]

\* the view after a call made with the listener l, which the call notified of `state` if `called`
Viewed(view, l, called, state) ==
    IF view.registered /\ l # "nil"
      THEN [view EXCEPT !.state = IF called THEN state ELSE @]
      ELSE Unregistered

\* the zero value of the struct, before NewRemoteBWE calls Reset
ZeroRemoteBWE ==
    [lastReceivedEstimate |-> 0,
     lastExpectedBandwidthUsage |-> 0,
     committedChannelCapacity |-> 0,
     isInProbe |-> FALSE,
     channelObserver |-> MakeChannelObserver("nil", 0),
     congestionState |-> "None",
     congestionStateSwitchedAt |-> 0]

\* NewRemoteBWE: the struct after r.Reset(), no listener set
Init ==
    /\ now = 0
    /\ bweListener = "nil"
    /\ LET r == ResetLocked(ZeroRemoteBWE)
       IN  /\ lastReceivedEstimate = r.lastReceivedEstimate
           /\ lastExpectedBandwidthUsage = r.lastExpectedBandwidthUsage
           /\ committedChannelCapacity = r.committedChannelCapacity
           /\ isInProbe = r.isInProbe
           /\ channelObserver = r.channelObserver
           /\ congestionState = r.congestionState
           /\ congestionStateSwitchedAt = r.congestionStateSwitchedAt
    /\ lastCall = Call("NewRemoteBWE", NoArgs, "", 0, 0, NoNotification)
    /\ lock = [writer |-> "none", readers |-> {}]
    /\ pc = [t \in Threads |-> "idle"]
    /\ frame = [t \in Threads |-> NoFrame]
    /\ listenerView = NoView
    /\ pending = <<>>

\* the clock advances
Tick ==
    /\ now < MaxTime
    /\ now' = now + 1
    /\ UNCHANGED <<fields, bweListener, history, threads>>

SetBWEListener(l) ==
    /\ bweListener' = l
    /\ lastCall' = Call("SetBWEListener", NoArgs, "", 0, 0, NoNotification)
    /\ UNCHANGED <<fields, now, listenerView, threads>>

Reset ==
    /\ Install(ResetLocked(Self))
    /\ lastCall' = Call("Reset", NoArgs, "", 0, 0, NoNotification)
    /\ listenerView' = Unregistered
    /\ UNCHANGED <<bweListener, now, threads>>

\* HandleREMB: the critical section, then the listener called with what the section returned
HandleREMB(receivedEstimate, expectedBandwidthUsage, sentPackets, repeatedNacks) ==
    LET res == HandleREMBLocked(Self, receivedEstimate, expectedBandwidthUsage, sentPackets, repeatedNacks)
        called == res.shouldNotify /\ bweListener # "nil"
    IN  /\ channelObserver.sentPackets + sentPackets <= MaxPackets
        /\ Install(res.r)
        /\ lastCall' = Call("HandleREMB",
                            [receivedEstimate |-> receivedEstimate,
                             expectedBandwidthUsage |-> expectedBandwidthUsage,
                             sentPackets |-> sentPackets, repeatedNacks |-> repeatedNacks],
                            "", 0,
                            IF called THEN 1 ELSE 0,
                            IF called
                              THEN [state |-> res.state,
                                    committedChannelCapacity |-> res.committedChannelCapacity]
                              ELSE NoNotification)
        /\ listenerView' = Viewed(listenerView, bweListener, called, res.state)
        /\ UNCHANGED <<bweListener, now, threads>>

\* CongestionState(): the state read under the read lock
CongestionState ==
    /\ lastCall' = Call("CongestionState", NoArgs, congestionState, 0, 0, NoNotification)
    /\ UNCHANGED <<fields, bweListener, now, listenerView, threads>>

ProbeClusterStarting(goal) ==
    /\ Install(ProbeClusterStartingLocked(Self, goal))
    /\ lastCall' = Call("ProbeClusterStarting", [NoArgs EXCEPT !.expectedBandwidthUsage = goal],
                        "", 0, 0, NoNotification)
    /\ listenerView' = Viewed(listenerView, bweListener, FALSE, "None")
    /\ UNCHANGED <<bweListener, now, threads>>

ProbeClusterDone ==
    LET res == ProbeClusterDoneLocked(Self)
    IN  /\ Install(res.r)
        /\ lastCall' = Call("ProbeClusterDone", NoArgs, res.signal, res.capacity, 0, NoNotification)
        /\ listenerView' = Viewed(listenerView, bweListener, FALSE, "None")
        /\ UNCHANGED <<bweListener, now, threads>>

Next ==
    \/ Tick
    \/ \E l \in {"nil", "listener"} : SetBWEListener(l)
    \/ Reset
    \/ \E e \in Estimates, u \in Usages, n \in NackReports : HandleREMB(e, u, n[1], n[2])
    \/ CongestionState
    \/ \E g \in ProbeGoals : ProbeClusterStarting(g)
    \/ ProbeClusterDone

Spec == Init /\ [][Next]_vars

-----------------------------------------------------------------------------
(* The public calls made by concurrent threads, the lock modelled.             *)
(* A critical section runs in the step that takes the lock. HandleREMB gives   *)
(* the lock back in a step of its own and then, outside it, reads the listener *)
(* under the read lock and calls it; the listener may call back into the       *)
(* controller. The other calls hold the lock from their first to their last    *)
(* statement and are one step.                                                 *)

\* a variant of CanLock that does not wait for the readers or the writer
CanLockAlways == TRUE

\* r.lock.Lock() returns
CanLock == lock.writer = "none" /\ lock.readers = {}

\* r.lock.RLock() returns
CanRLock == lock.writer = "none"

\* a variant of Unlock that leaves the lock held while the listener is called
UnlockNot(l, t) == l

\* r.lock.Unlock() of HandleREMB, before the listener is looked up
Unlock(l, t) == [l EXCEPT !.writer = "none"]

\* the calls a listener makes from OnCongestionStateChange
Reentries == {"none", "CongestionState", "HandleREMB", "ProbeClusterStarting",
              "ProbeClusterDone", "Reset", "SetBWEListener"}

Goto(t, label) == pc' = [pc EXCEPT ![t] = label]

\* the notification thread t has decided to make, with the state and the capacity its
\* critical section left; overtaken: a notification decided later has been made already
Notification(t, state, capacity) ==
    [thread |-> t, state |-> state, committedChannelCapacity |-> capacity, overtaken |-> FALSE]

\* the pending notifications once thread t has given its own up (no listener)
Dropped(q, t) == SelectSeq(q, LAMBDA n : n.thread # t)

\* the pending notifications once thread t has made its own: the older ones are overtaken
Delivered(q, t) ==
    LET i == CHOOSE k \in 1..Len(q) : q[k].thread = t
    IN  [k \in 1..(Len(q) - 1) |->
            IF k < i THEN [q[k] EXCEPT !.overtaken = TRUE] ELSE q[k + 1]]

\* HandleREMB from r.lock.Lock() to the return of congestionDetectionStateMachine
ThreadHandleREMB(t, receivedEstimate, expectedBandwidthUsage, sentPackets, repeatedNacks) ==
    LET res == HandleREMBLocked(Self, receivedEstimate, expectedBandwidthUsage, sentPackets, repeatedNacks)
    IN  /\ pc[t] = "idle"
        /\ CanLock
        /\ channelObserver.sentPackets + sentPackets <= MaxPackets
        /\ lock' = [lock EXCEPT !.writer = t]
        /\ Install(res.r)
        /\ frame' = [frame EXCEPT ![t] = [NoFrame EXCEPT !.shouldNotify = res.shouldNotify,
                                                         !.state = res.state,
                                                         !.committedChannelCapacity = res.committedChannelCapacity]]
        /\ Goto(t, "locked")
        /\ pending' = IF res.shouldNotify
                        THEN Append(pending, Notification(t, congestionState', committedChannelCapacity'))
                        ELSE pending
        /\ UNCHANGED <<bweListener, now, history>>

\* HandleREMB: r.lock.Unlock(), then return or go on to notify
ThreadUnlock(t) ==
    /\ pc[t] = "locked"
    /\ lock' = Unlock(lock, t)
    /\ Goto(t, IF frame[t].shouldNotify THEN "notify" ELSE "idle")
    /\ frame' = [frame EXCEPT ![t] = IF frame[t].shouldNotify THEN @ ELSE NoFrame]
    /\ UNCHANGED <<fields, bweListener, now, history, pending>>

\* getBWEListener: r.lock.RLock() and the read of r.bweListener
ThreadGetBWEListener(t) ==
    /\ pc[t] = "notify"
    /\ CanRLock
    /\ lock' = [lock EXCEPT !.readers = @ \cup {t}]
    /\ frame' = [frame EXCEPT ![t].bweListener = bweListener]
    /\ Goto(t, "rlocked")
    /\ UNCHANGED <<fields, bweListener, now, history, pending>>

\* getBWEListener: the deferred r.lock.RUnlock() and the nil test of HandleREMB
ThreadGetBWEListenerReturn(t) ==
    /\ pc[t] = "rlocked"
    /\ lock' = [lock EXCEPT !.readers = @ \ {t}]
    /\ Goto(t, IF frame[t].bweListener # "nil" THEN "callback" ELSE "idle")
    /\ frame' = [frame EXCEPT ![t] = IF frame[t].bweListener # "nil" THEN @ ELSE NoFrame]
    /\ pending' = IF frame[t].bweListener # "nil" THEN pending ELSE Dropped(pending, t)
    /\ UNCHANGED <<fields, bweListener, now, history>>

\* bweListener.OnCongestionStateChange(state, committedChannelCapacity) begins; the
\* listener will make the call `reentry` back into the controller
ThreadOnCongestionStateChange(t, reentry) ==
    /\ pc[t] = "callback"
    /\ frame' = [frame EXCEPT ![t].reentry = reentry]
    /\ Goto(t, "inListener")
    /\ pending' = Delivered(pending, t)
    /\ UNCHANGED <<fields, bweListener, now, history, lock>>

\* the listener's call into the controller, then the return of OnCongestionStateChange
\* and of HandleREMB
ThreadListenerCall(t) ==
    /\ pc[t] = "inListener"
    /\ \/ /\ frame[t].reentry = "none"
          /\ UNCHANGED <<fields, bweListener>>
       \/ /\ frame[t].reentry = "CongestionState"
          /\ CanRLock
          /\ UNCHANGED <<fields, bweListener>>
       \/ /\ frame[t].reentry = "HandleREMB"
          /\ CanLock
          /\ \E f \in ThreadFeeds :
                /\ channelObserver.sentPackets + f[3] <= MaxPackets
                /\ Install(HandleREMBLocked(Self, f[1], f[2], f[3], f[4]).r)
          /\ UNCHANGED bweListener
       \/ /\ frame[t].reentry = "ProbeClusterStarting"
          /\ CanLock
          /\ \E g \in ProbeGoals : Install(ProbeClusterStartingLocked(Self, g))
          /\ UNCHANGED bweListener
       \/ /\ frame[t].reentry = "ProbeClusterDone"
          /\ CanLock
          /\ Install(ProbeClusterDoneLocked(Self).r)
          /\ UNCHANGED bweListener
       \/ /\ frame[t].reentry = "Reset"
          /\ CanLock
          /\ Install(ResetLocked(Self))
          /\ UNCHANGED bweListener
       \/ /\ frame[t].reentry = "SetBWEListener"
          /\ CanLock
          /\ \E l \in {"nil", "listener"} : bweListener' = l
          /\ UNCHANGED fields
    /\ frame' = [frame EXCEPT ![t] = NoFrame]
    /\ Goto(t, "idle")
    /\ UNCHANGED <<now, history, lock, pending>>

ThreadSetBWEListener(t, l) ==
    /\ pc[t] = "idle"
    /\ CanLock
    /\ bweListener' = l
    /\ UNCHANGED <<fields, now, history, threads>>

ThreadReset(t) ==
    /\ pc[t] = "idle"
    /\ CanLock
    /\ Install(ResetLocked(Self))
    /\ UNCHANGED <<bweListener, now, history, threads>>

ThreadProbeClusterStarting(t, goal) ==
    /\ pc[t] = "idle"
    /\ CanLock
    /\ Install(ProbeClusterStartingLocked(Self, goal))
    /\ UNCHANGED <<bweListener, now, history, threads>>

ThreadProbeClusterDone(t) ==
    /\ pc[t] = "idle"
    /\ CanLock
    /\ Install(ProbeClusterDoneLocked(Self).r)
    /\ UNCHANGED <<bweListener, now, history, threads>>

\* the steps of a thread that is inside HandleREMB
InCall(t) ==
    \/ ThreadUnlock(t)
    \/ ThreadGetBWEListener(t)
    \/ ThreadGetBWEListenerReturn(t)
    \/ \E c \in Reentries : ThreadOnCongestionStateChange(t, c)
    \/ ThreadListenerCall(t)

NextConc ==
    \E t \in Threads :
        \/ \E f \in ThreadFeeds : ThreadHandleREMB(t, f[1], f[2], f[3], f[4])
        \/ InCall(t)
        \/ \E l \in {"nil", "listener"} : ThreadSetBWEListener(t, l)
        \/ ThreadReset(t)
        \/ \E g \in ProbeGoals : ThreadProbeClusterStarting(t, g)
        \/ ThreadProbeClusterDone(t)

SpecConc == Init /\ [][NextConc]_vars

-----------------------------------------------------------------------------
(* Properties *)

\* the step is a HandleREMB call; its arguments are lastCall'.args
HandleREMBCall ==
    /\ lastCall'.op = "HandleREMB"
    /\ HandleREMB(lastCall'.args.receivedEstimate, lastCall'.args.expectedBandwidthUsage,
                  lastCall'.args.sentPackets, lastCall'.args.repeatedNacks)

\* the record HandleREMB(a) runs its state machine on: the arguments recorded and fed
Fed(a) == Feed(Self, a.receivedEstimate, a.expectedBandwidthUsage, a.sentPackets, a.repeatedNacks)

\* the trend HandleREMB(a) evaluates
FedTrend(a) == GetTrend(Fed(a).channelObserver)

\* HandleREMB replaces the live observer only in an accepted commit
CommitAccepted == channelObserver'.tag # channelObserver.tag

\* C1: a HandleREMB call made while isInProbe and congestionState is not None changes
\* nothing but lastReceivedEstimate and lastExpectedBandwidthUsage, which take the call's
\* arguments: the live observer (instance and samples), congestionState,
\* congestionStateSwitchedAt, committedChannelCapacity and isInProbe stay, and the listener
\* is not invoked.
C1_FreezeRule ==
    [][(HandleREMBCall /\ isInProbe /\ congestionState # "None") =>
            /\ channelObserver' = channelObserver
            /\ congestionState' = congestionState
            /\ congestionStateSwitchedAt' = congestionStateSwitchedAt
            /\ committedChannelCapacity' = committedChannelCapacity
            /\ isInProbe' = isInProbe
            /\ bweListener' = bweListener
            /\ lastCall'.notified = 0
            /\ lastReceivedEstimate' = lastCall'.args.receivedEstimate
            /\ lastExpectedBandwidthUsage' = lastCall'.args.expectedBandwidthUsage]_vars

\* a frozen call has completed: with a listener set and the state Congested in a probe, the
\* call's estimate was recorded but is not the observer's last sample
C1_Witness ==
    /\ lastCall.op = "HandleREMB"
    /\ isInProbe
    /\ lastCall.prior = "Congested"
    /\ congestionState = "Congested"
    /\ bweListener = "listener"
    /\ lastCall.notified = 0
    /\ lastReceivedEstimate = lastCall.args.receivedEstimate
    /\ channelObserver.estimates[Len(channelObserver.estimates)] # lastReceivedEstimate

\* C2 as stated: in the calls HandleREMB, ProbeClusterStarting and ProbeClusterDone (no
\* Reset), whenever congestionState changes from CongestedHangover to None, at least
\* CongestedMinDuration has elapsed since the state entered CongestedHangover
\* (congestionStateSwitchedAt is that time: see C2_HangoverExit).
C2_Original ==
    [][(congestionState = "CongestedHangover" /\ congestionState' = "None" /\ ~Reset) =>
          now' - congestionStateSwitchedAt >= CongestedMinDuration]_vars

\* C2 as amended: while the state is CongestedHangover, congestionStateSwitchedAt is the time
\* the state entered it, and whenever a HandleREMB call changes congestionState from
\* CongestedHangover to None, at least CongestedMinDuration has elapsed since then.
\* ProbeClusterStarting never changes the state; ProbeClusterDone is not covered: it sets None at once.
C2_HangoverExit ==
    [][/\ (congestionState # "CongestedHangover" /\ congestionState' = "CongestedHangover") =>
              congestionStateSwitchedAt' = now'
       /\ (congestionState = "CongestedHangover" /\ congestionState' = "CongestedHangover") =>
              congestionStateSwitchedAt' = congestionStateSwitchedAt
       /\ (congestionState = "CongestedHangover" /\ congestionState' = "None"
                /\ ~Reset /\ ~ProbeClusterDone) =>
              /\ HandleREMBCall
              /\ now' - congestionStateSwitchedAt >= CongestedMinDuration]_vars

\* a HandleREMB call has taken the state from CongestedHangover to None
C2_Witness ==
    /\ lastCall.op = "HandleREMB"
    /\ lastCall.prior = "CongestedHangover"
    /\ congestionState = "None"
    /\ now >= CongestedMinDuration

\* C3: every accepted commit writes to committedChannelCapacity a value that is at most
\* lastReceivedEstimate and at most the commit threshold
\* int64(ExpectedUsageThreshold * lastExpectedBandwidthUsage), for both reasons.
C3_CommitClamp ==
    [][(HandleREMBCall /\ CommitAccepted) =>
            /\ FedTrend(lastCall'.args).reason \in {"Loss", "BandwidthEstimate"}
            /\ committedChannelCapacity' <= lastReceivedEstimate'
            /\ committedChannelCapacity' <= lastCall'.args.receivedEstimate
            /\ committedChannelCapacity' <=
                  TruncDiv(ExpectedUsageThresholdNum * lastCall'.args.expectedBandwidthUsage,
                           ExpectedUsageThresholdDen)]_vars

\* a commit for the Loss reason has been accepted, with the candidate cut to the estimate
C3_Witness ==
    /\ lastCall.op = "HandleREMB"
    /\ lastCall.args.repeatedNacks > 0
    /\ lastCall.notified = 1
    /\ lastCall.notification.state = "Congested"
    /\ channelObserver.estimates = <<>>
    /\ committedChannelCapacity = lastReceivedEstimate

\* C4: when the clamped candidate of a commit attempt is greater than
\* ExpectedUsageThreshold x lastExpectedBandwidthUsage, the commit is rejected:
\* committedChannelCapacity, the live observer (as fed by the call), congestionState and
\* congestionStateSwitchedAt stay as they were, and the listener is not notified; so in
\* Congested and CongestedHangover with a Congesting trend.
C4_ThresholdRejection ==
    [][LET r1 == Fed(lastCall'.args)
             t == FedTrend(lastCall'.args)
             attempted == /\ ~(isInProbe /\ congestionState # "None")
                          /\ t.trend = "Congesting"
                          /\ ~(congestionState = "None" /\ isInProbe)
             candidate == EstimateToCommit(r1, t.reason)
         IN  (/\ HandleREMBCall
              /\ attempted
              /\ ExpectedUsageThresholdDen * candidate >
                    ExpectedUsageThresholdNum * lastCall'.args.expectedBandwidthUsage) =>
                /\ committedChannelCapacity' = committedChannelCapacity
                /\ channelObserver' = r1.channelObserver
                /\ channelObserver'.tag = channelObserver.tag
                /\ congestionState' = congestionState
                /\ congestionStateSwitchedAt' = congestionStateSwitchedAt
                /\ lastCall'.notified = 0]_vars

\* a commit has been rejected in Congested or CongestedHangover: the trend of the live
\* observer is still Congesting after the call, and the listener that is set was not called
C4_Witness ==
    /\ lastCall.op = "HandleREMB"
    /\ lastCall.prior \in {"Congested", "CongestedHangover"}
    /\ congestionState = lastCall.prior
    /\ ~isInProbe
    /\ GetTrend(channelObserver).trend = "Congesting"
    /\ bweListener = "listener"
    /\ lastCall.notified = 0

\* C5: from every state ProbeClusterDone returns one of Inconclusive, Congesting, Clearing
\* and leaves isInProbe false, congestionState None and a new, empty non-probe observer,
\* another instance than the one live before the call.
C5_ProbeOutcomeCompleteness ==
    [][ProbeClusterDone =>
          /\ lastCall'.signal \in {"Inconclusive", "Congesting", "Clearing"}
          /\ isInProbe' = FALSE
          /\ congestionState' = "None"
          /\ channelObserver'.tag # channelObserver.tag
          /\ channelObserver' = MakeChannelObserver("non-probe", channelObserver'.tag)]_vars

\* ProbeClusterDone has ended a probe that was in a congested state
C5_Witness ==
    /\ lastCall.op = "ProbeClusterDone"
    /\ lastCall.probe
    /\ lastCall.prior # "None"
    /\ lastCall.signal = "Congesting"
    /\ ~isInProbe
    /\ congestionState = "None"

\* C6: ProbeClusterDone returns Congesting exactly when the state at entry is not None;
\* otherwise Inconclusive when the observer at entry lacks samples or has a Neutral trend;
\* in both cases committedChannelCapacity stays and is what is returned. When it returns
\* Clearing, committedChannelCapacity becomes the larger of its old value and the observer's
\* highest estimate. ProbeClusterDone never lowers committedChannelCapacity.
C6_ProbeDecision ==
    [][ProbeClusterDone =>
          LET signal == lastCall'.signal
              pco == channelObserver
              highest == GetHighestEstimate(pco)
          IN  /\ (signal = "Congesting") <=> (congestionState # "None")
              /\ (congestionState = "None"
                    /\ (~HasEnoughEstimateSamples(pco) \/ GetTrend(pco).trend = "Neutral")) =>
                     signal = "Inconclusive"
              /\ signal \in {"Congesting", "Inconclusive"} =>
                     /\ committedChannelCapacity' = committedChannelCapacity
                     /\ lastCall'.capacity = committedChannelCapacity
              /\ signal = "Clearing" =>
                     /\ committedChannelCapacity' =
                           (IF highest > committedChannelCapacity THEN highest
                            ELSE committedChannelCapacity)
                     /\ lastCall'.capacity = committedChannelCapacity'
              /\ committedChannelCapacity' >= committedChannelCapacity]_vars

\* a probe has ended Clearing with the capacity above every commit threshold of the feed:
\* it was raised to the probe observer's highest estimate
C6_Witness ==
    /\ lastCall.op = "ProbeClusterDone"
    /\ lastCall.probe
    /\ lastCall.prior = "None"
    /\ lastCall.signal = "Clearing"
    /\ lastCall.capacity = committedChannelCapacity
    /\ committedChannelCapacity \in Estimates
    /\ \A u \in Usages : committedChannelCapacity > u

\* C7 as stated: ProbeClusterDone returns Clearing only if the observer at entry has enough
\* estimate samples and its trend is neither Neutral nor Congesting.
C7_ClearingNeedsNonCongestingWindow ==
    [][(ProbeClusterDone /\ lastCall'.signal = "Clearing") =>
          /\ HasEnoughEstimateSamples(channelObserver)
          /\ GetTrend(channelObserver).trend \notin {"Neutral", "Congesting"}]_vars

\* C8: with a listener set, a HandleREMB call invokes OnCongestionStateChange once if the
\* state after the call differs from the state before it, or a commit was accepted while
\* the state stayed Congested, and not at all otherwise; the arguments are congestionState
\* and committedChannelCapacity as the call's critical section left them.
C8_NotificationRule ==
    [][(HandleREMBCall /\ bweListener # "nil") =>
            LET changed == congestionState' # congestionState
                recommit == /\ congestionState = "Congested"
                            /\ congestionState' = "Congested"
                            /\ CommitAccepted
            IN  /\ lastCall'.notified = (IF changed \/ recommit THEN 1 ELSE 0)
                /\ lastCall'.notified = 1 =>
                      lastCall'.notification =
                          [state |-> congestionState',
                           committedChannelCapacity |-> committedChannelCapacity']]_vars

\* the listener has been called for a re-commit in Congested
C8_Witness ==
    /\ lastCall.op = "HandleREMB"
    /\ lastCall.prior = "Congested"
    /\ congestionState = "Congested"
    /\ lastCall.notified = 1
    /\ lastCall.notification.state = "Congested"
    /\ lastCall.notification.committedChannelCapacity = committedChannelCapacity

\* C10: a HandleREMB call that is not frozen and evaluates, in CongestedHangover, a trend
\* that is not Congesting sets congestionState to None, congestionStateSwitchedAt to the
\* time of the call and calls the listener (if one is set) with None when at least
\* CongestedMinDuration has elapsed since congestionStateSwitchedAt; when less has
\* elapsed, the state stays CongestedHangover and the listener is not called.
C10_HangoverExitOnFirstEligible ==
    [][(/\ HandleREMBCall
          /\ congestionState = "CongestedHangover"
          /\ ~isInProbe
          /\ FedTrend(lastCall'.args).trend # "Congesting") =>
            IF now - congestionStateSwitchedAt >= CongestedMinDuration
              THEN /\ congestionState' = "None"
                   /\ congestionStateSwitchedAt' = now'
                   /\ bweListener # "nil" =>
                         /\ lastCall'.notified = 1
                         /\ lastCall'.notification.state = "None"
              ELSE /\ congestionState' = "CongestedHangover"
                   /\ congestionStateSwitchedAt' = congestionStateSwitchedAt
                   /\ lastCall'.notified = 0]_vars

\* the listener has been told of the exit from CongestedHangover at the time of the call
C10_Witness ==
    /\ lastCall.op = "HandleREMB"
    /\ lastCall.prior = "CongestedHangover"
    /\ congestionState = "None"
    /\ congestionStateSwitchedAt = now
    /\ lastCall.notified = 1
    /\ lastCall.notification.state = "None"

\* the locks thread t holds
Holds(t) == lock.writer = t \/ t \in lock.readers

\* thread t, inside HandleREMB, can take its next step: it is not waiting for the lock
Ready(t) ==
    CASE pc[t] = "notify" -> CanRLock
      [] pc[t] = "inListener" ->
            IF frame[t].reentry = "none" THEN TRUE
            ELSE IF frame[t].reentry = "CongestionState" THEN CanRLock
            ELSE CanLock
      [] OTHER -> pc[t] # "idle"

\* Ready is the enabling condition of the steps inside HandleREMB
ReadyIsEnabled == \A t \in Threads : Ready(t) <=> ENABLED InCall(t)

\* C9: while OnCongestionStateChange executes, the notifying thread holds neither the write
\* lock nor a read lock, so the listener's call back into the controller goes through; and
\* no state is a deadlock: a thread inside HandleREMB can take its next step, or waits for
\* a lock whose holder can.
C9_NotifyOutsideLock ==
    \A t \in Threads :
        /\ pc[t] \in {"callback", "inListener"} => ~Holds(t)
        /\ pc[t] # "idle" =>
              \/ Ready(t)
              \/ \E o \in Threads \ {t} : Holds(o) /\ Ready(o)

\* a listener called from HandleREMB is about to call Reset on the controller while the
\* other thread is inside HandleREMB too
C9_Witness ==
    \E t \in Threads :
        /\ pc[t] = "inListener"
        /\ frame[t].reentry = "Reset"
        /\ \E o \in Threads \ {t} : pc[o] = "notify"

\* C11: steady feedback without congestion. Reset leaves the state None, the capacity
\* DefaultCommittedChannelCapacity and no probe; and a HandleREMB call made in the state None
\* whose evaluated trend is not Congesting keeps the state None, the capacity, the probe flag
\* and the observer instance (which takes the call's samples), and does not invoke the listener.
C11_SteadyFeedback ==
    [][/\ Reset =>
              /\ congestionState' = "None"
              /\ committedChannelCapacity' = DefaultCommittedChannelCapacity
              /\ ~isInProbe'
       /\ (HandleREMBCall /\ congestionState = "None" /\ FedTrend(lastCall'.args).trend # "Congesting") =>
              /\ congestionState' = "None"
              /\ committedChannelCapacity' = committedChannelCapacity
              /\ isInProbe' = isInProbe
              /\ channelObserver'.tag = channelObserver.tag
              /\ channelObserver' = Fed(lastCall'.args).channelObserver
              /\ congestionStateSwitchedAt' = congestionStateSwitchedAt
              /\ lastCall'.notified = 0]_vars

\* a full window of feedback has been evaluated with a listener set: the state is None, the
\* capacity is the default and the call did not notify
C11_Witness ==
    /\ lastCall.op = "HandleREMB"
    /\ lastCall.prior = "None"
    /\ ~lastCall.probe
    /\ bweListener = "listener"
    /\ HasEnoughEstimateSamples(channelObserver)
    /\ GetTrend(channelObserver).trend = "Clearing"
    /\ congestionState = "None"
    /\ committedChannelCapacity = DefaultCommittedChannelCapacity
    /\ lastCall.notified = 0

\* the step is the call ProbeClusterStarting
ProbeClusterStartingCall ==
    /\ lastCall'.op = "ProbeClusterStarting"
    /\ ProbeClusterStarting(lastCall'.args.expectedBandwidthUsage)

\* C12: ProbeClusterStarting sets lastExpectedBandwidthUsage to the goal and isInProbe to
\* true and replaces the live observer by a new probe observer whose only sample is the
\* committed capacity; committedChannelCapacity, lastReceivedEstimate, congestionState,
\* congestionStateSwitchedAt and the listener stay, and the listener is not invoked.
C12_ProbeClusterStartingEffect ==
    [][ProbeClusterStartingCall =>
            /\ lastExpectedBandwidthUsage' = lastCall'.args.expectedBandwidthUsage
            /\ isInProbe'
            /\ channelObserver'.tag # channelObserver.tag
            /\ channelObserver'.name = "probe"
            /\ channelObserver'.estimates = <<committedChannelCapacity>>
            /\ channelObserver'.sentPackets = 0
            /\ channelObserver'.repeatedNacks = 0
            /\ committedChannelCapacity' = committedChannelCapacity
            /\ lastReceivedEstimate' = lastReceivedEstimate
            /\ congestionState' = congestionState
            /\ congestionStateSwitchedAt' = congestionStateSwitchedAt
            /\ bweListener' = bweListener
            /\ lastCall'.notified = 0]_vars

\* a probe has just started in the state Congested with a committed capacity, after feedback
\* with a usage other than the goal and with samples in the observer it replaced
C12_Witness ==
    /\ lastCall.op = "ProbeClusterStarting"
    /\ lastCall.prior = "Congested"
    /\ ~lastCall.probe
    /\ isInProbe
    /\ lastExpectedBandwidthUsage = lastCall.args.expectedBandwidthUsage
    /\ committedChannelCapacity # DefaultCommittedChannelCapacity
    /\ channelObserver.estimates = <<committedChannelCapacity>>
    /\ lastReceivedEstimate # 0

\* the commit HandleREMB(a) attempts would be accepted
WouldCommit(a) ==
    EstimateToCommit(Fed(a), FedTrend(a).reason) <= CommitThreshold(Fed(a))

\* C13 as stated: in the state None with a Congesting trend, the state after the call is
\* Congested if and only if a probe is in flight or the commit is accepted, and the commit is
\* attempted with or without a probe: an acceptable estimate becomes the committed capacity
\* and the observer is replaced.
C13_Original ==
    [][(HandleREMBCall /\ congestionState = "None" /\ FedTrend(lastCall'.args).trend = "Congesting") =>
            /\ congestionState' = "Congested" <=> (isInProbe \/ WouldCommit(lastCall'.args))
            /\ WouldCommit(lastCall'.args) =>
                  /\ committedChannelCapacity' =
                        EstimateToCommit(Fed(lastCall'.args), FedTrend(lastCall'.args).reason)
                  /\ CommitAccepted]_vars

\* C13 as amended: in the state None with a Congesting trend, the state after the call is
\* Congested if and only if a probe is in flight or the commit is accepted, and None
\* otherwise; the commit is attempted only when no probe is in flight: in a probe the
\* committed capacity stays and the live observer is kept with the call's samples.
C13_CommitOutsideProbe ==
    [][(HandleREMBCall /\ congestionState = "None" /\ FedTrend(lastCall'.args).trend = "Congesting") =>
            /\ congestionState' = "Congested" <=> (isInProbe \/ WouldCommit(lastCall'.args))
            /\ congestionState' \in {"None", "Congested"}
            /\ (~isInProbe /\ WouldCommit(lastCall'.args)) =>
                  /\ committedChannelCapacity' =
                        EstimateToCommit(Fed(lastCall'.args), FedTrend(lastCall'.args).reason)
                  /\ CommitAccepted
            /\ (isInProbe \/ ~WouldCommit(lastCall'.args)) =>
                  /\ committedChannelCapacity' = committedChannelCapacity
                  /\ channelObserver' = Fed(lastCall'.args).channelObserver]_vars

\* a call in a probe took the state from None to Congested on an estimate that a commit
\* would have accepted: the capacity is another value and the observer holds the estimate
C13_Witness ==
    /\ lastCall.op = "HandleREMB"
    /\ lastCall.probe
    /\ lastCall.prior = "None"
    /\ congestionState = "Congested"
    /\ isInProbe
    /\ ExpectedUsageThresholdDen * lastReceivedEstimate
          <= ExpectedUsageThresholdNum * lastExpectedBandwidthUsage
    /\ committedChannelCapacity # lastReceivedEstimate
    /\ channelObserver.estimates[Len(channelObserver.estimates)] = lastReceivedEstimate

\* C14: congestionStateSwitchedAt is updated on every change of congestionState, whatever
\* operation makes it, and on an accepted re-commit of HandleREMB that stays Congested: after
\* such a step it is the time of the step.
C14_SwitchedAtOnEveryChange ==
    [][(\/ congestionState' # congestionState
        \/ (HandleREMBCall /\ congestionState = "Congested" /\ congestionState' = "Congested"
               /\ CommitAccepted)) =>
            congestionStateSwitchedAt' = now']_vars

\* C15: committedChannelCapacity changes only in Reset, which sets
\* DefaultCommittedChannelCapacity; in a HandleREMB call whose commit is accepted; and in a
\* ProbeClusterDone that returns Clearing, which only raises it. Every other step leaves it.
C15_CapacityWriters ==
    [][committedChannelCapacity' # committedChannelCapacity =>
            \/ Reset /\ committedChannelCapacity' = DefaultCommittedChannelCapacity
            \/ /\ HandleREMBCall
               /\ CommitAccepted
               /\ ~Frozen(Self)
               /\ FedTrend(lastCall'.args).trend = "Congesting"
               /\ committedChannelCapacity' =
                     EstimateToCommit(Fed(lastCall'.args), FedTrend(lastCall'.args).reason)
            \/ /\ ProbeClusterDone
               /\ lastCall'.signal = "Clearing"
               /\ committedChannelCapacity' > committedChannelCapacity]_vars

\* Reset has restored the default capacity of a controller that was Congested outside a
\* probe, that is, after a commit
C15_Witness ==
    /\ lastCall.op = "Reset"
    /\ lastCall.prior = "Congested"
    /\ ~lastCall.probe
    /\ committedChannelCapacity = DefaultCommittedChannelCapacity
    /\ congestionState = "None"

\* C16: CongestedHangover is entered only from Congested, by a HandleREMB call whose evaluated
\* trend is not Congesting; no step takes None to CongestedHangover.
C16_HangoverOnlyFromCongested ==
    [][(congestionState # "CongestedHangover" /\ congestionState' = "CongestedHangover") =>
            /\ congestionState = "Congested"
            /\ HandleREMBCall
            /\ FedTrend(lastCall'.args).trend # "Congesting"]_vars

\* a HandleREMB call has taken the state from Congested to CongestedHangover
C16_Witness ==
    /\ lastCall.op = "HandleREMB"
    /\ lastCall.prior = "Congested"
    /\ congestionState = "CongestedHangover"
    /\ congestionStateSwitchedAt = now
    /\ GetTrend(channelObserver).trend # "Congesting"

\* C17: a step that ends with a probe in flight (ProbeClusterStarting, and every step between
\* it and the next ProbeClusterDone or Reset) leaves committedChannelCapacity as it was, so
\* during a probe the capacity is the one ProbeClusterStarting found.
C17_CapacityHeldInProbe ==
    [][isInProbe' => committedChannelCapacity' = committedChannelCapacity]_vars

\* in a probe started in the state Congested a HandleREMB call brought an estimate below the
\* commit threshold and below the committed capacity, which stays
C17_Witness ==
    /\ lastCall.op = "HandleREMB"
    /\ lastCall.probe
    /\ isInProbe
    /\ lastCall.prior = "Congested"
    /\ ExpectedUsageThresholdDen * lastReceivedEstimate
          <= ExpectedUsageThresholdNum * lastExpectedBandwidthUsage
    /\ lastReceivedEstimate < committedChannelCapacity
    /\ channelObserver.estimates = <<committedChannelCapacity>>

\* C18: between ProbeClusterStarting and the next ProbeClusterDone or Reset, congestionState
\* changes only from None to Congested (so at most once), the listener is invoked only by the
\* call that makes this change (so at most once), ProbeClusterStarting itself keeps the state,
\* and a ProbeClusterDone that finds a probe in a state other than None returns Congesting.
C18_ProbeLatch ==
    [][/\ (isInProbe' /\ congestionState' # congestionState) =>
              isInProbe /\ congestionState = "None" /\ congestionState' = "Congested"
       /\ (isInProbe /\ HandleREMBCall /\ lastCall'.notified # 0) =>
              /\ lastCall'.notified = 1
              /\ congestionState = "None"
              /\ congestionState' = "Congested"
       /\ (isInProbe /\ congestionState # "None" /\ ProbeClusterDone) =>
              lastCall'.signal = "Congesting"]_vars

\* a probe that was started in CongestedHangover has seen feedback after the hangover time
\* and is still in CongestedHangover
C18_Witness ==
    /\ lastCall.op = "HandleREMB"
    /\ lastCall.probe
    /\ isInProbe
    /\ lastCall.prior = "CongestedHangover"
    /\ congestionState = "CongestedHangover"
    /\ HangoverElapsed(Self)

\* thread t makes its notification in this step
Notifies(t) == pc[t] = "callback" /\ pc'[t] = "inListener"

\* the pending notification of thread t
PendingOf(t) == pending[CHOOSE k \in 1..Len(pending) : pending[k].thread = t]

\* C19 as stated: the listener receives the OnCongestionStateChange calls in the order in
\* which their transitions were applied under the lock: no thread makes a notification
\* after a notification decided later than its own has been made.
C19_Original ==
    [][\A t \in Threads : Notifies(t) => ~PendingOf(t).overtaken]_vars

\* C19 as amended: the transitions are applied one at a time under the lock, and every
\* notification carries the state and the capacity its own transition left: the thread that
\* holds the lock after a notify-worthy transition has the controller's current state and
\* capacity in its locals and is the last to have decided a notification, and the locals of
\* every thread on its way to the listener are still those values. The order in which the
\* notifications of different threads are made is not part of the statement.
C19_NotificationCarriesOwnTransition ==
    /\ \A i, j \in 1..Len(pending) : pending[i].thread = pending[j].thread => i = j
    /\ \A i \in 1..Len(pending) :
          LET n == pending[i]
              t == n.thread
          IN  /\ pc[t] \in {"locked", "notify", "rlocked", "callback"}
              /\ frame[t].shouldNotify
              /\ frame[t].state = n.state
              /\ frame[t].committedChannelCapacity = n.committedChannelCapacity
              /\ n.overtaken => i < Len(pending) \/ pc[t] # "locked"
    /\ \A t \in Threads :
          /\ (pc[t] = "locked" /\ frame[t].shouldNotify) =>
                 /\ Len(pending) > 0
                 /\ pending[Len(pending)].thread = t
                 /\ frame[t].state = congestionState
                 /\ frame[t].committedChannelCapacity = committedChannelCapacity
          /\ (pc[t] \in {"notify", "rlocked", "callback"}) =>
                 \E i \in 1..Len(pending) : pending[i].thread = t

\* a thread is about to tell the listener of a transition after the other thread has told it
\* of a later one, and the state it carries is no longer the controller's
C19_Witness ==
    \E t \in Threads :
        /\ pc[t] = "callback"
        /\ PendingOf(t).overtaken
        /\ frame[t].state # congestionState
        /\ frame[t].state = PendingOf(t).state

\* C20 as stated: with a listener registered at every call since construction and no Reset,
\* the state most recently delivered to the listener (None if none was) is congestionState,
\* what CongestionState() returns.
C20_Original == listenerView.registered => listenerView.state = congestionState

\* C20 as amended: with a listener registered at every call since construction and no Reset,
\* the state most recently delivered to the listener (None if none was) is congestionState
\* whenever congestionState is Congested or CongestedHangover; when congestionState is None
\* the listener may still hold the state a ProbeClusterDone has reset without notifying.
C20_ListenerView ==
    listenerView.registered => (listenerView.state = congestionState \/ congestionState = "None")

\* ProbeClusterDone has reset a CongestedHangover state the listener was told of
C20_Witness ==
    /\ listenerView.registered
    /\ lastCall.op = "ProbeClusterDone"
    /\ lastCall.prior = "CongestedHangover"
    /\ listenerView.state = "CongestedHangover"
    /\ congestionState = "None"

====
